---- MODULE Spec2Model ----
(***************************************************************************)
(* The cloudmetrics controller of cloud-resource-operator                  *)
(* (pkg/controller/cloudmetrics/cloudmetrics_controller.go): construction  *)
(* of the reconciler, the add() start-up kick, the Reconcile() pass over   *)
(* the redis and postgres custom resources, and setGaugeMetrics().         *)
(***************************************************************************)
EXTENDS Integers, Sequences, FiniteSets, TLC

VARIABLES
    addPc,              \* position in Add()/add(): newReconciler .. done | failed
    registered,         \* the gauge vectors given to Registry.MustRegister, in call order
    kick,               \* the start-up goroutine: "none" | "blocked" | "sent"
    watching,           \* c.Watch installed the channel source
    queue,              \* the controller's work queue: causes of the pending request
    pc,                 \* position of the worker in Reconcile()
    trigger,            \* what queued the request of the current pass
    redisInstances,     \* redisInstances.Items
    postgresInstances,  \* postgresInstances.Items
    idx,                \* index of the instance loop
    pidx,               \* index of the provider loop
    scrapedMetrics,     \* Reconcile's local scrapedMetrics
    gauges,             \* the labelled series of all gauge vectors
    result,             \* what the last return of Reconcile() gave the controller
    listLog,            \* this pass: outcome of the List call per kind
    scrapeLog,          \* this pass: the scrape calls made, with their outcome
    setLog,             \* this pass: the Set calls made on gauge series
    pub                 \* setGaugeMetrics called on its own (PubSpec)

vars == << addPc, registered, kick, watching, queue, pc, trigger, redisInstances,
           postgresInstances, idx, pidx, scrapedMetrics, gauges, result, listLog,
           scrapeLog, setLog, pub >>

----------------------------------------------------------------------------
(* Bounds of the model *)

\* longest sample sequence setGaugeMetrics is applied to on its own
MaxPubSamples == 2
\* times setGaugeMetrics is called in a row on the same arguments
MaxPubCalls == 2
\* most custom resources (redis and postgres together) the cluster holds
MaxResources == 2
\* longest catalog the narrowing to one strategy is applied to on its own
MaxCatalogLen == 2

----------------------------------------------------------------------------
(* Label keys and the gauge catalogs *)

labelClusterIDKey == "clusterID"
labelResourceIDKey == "resourceID"
labelNamespaceKey == "namespace"
labelInstanceIDKey == "instanceID"
labelProductNameKey == "productName"
labelStrategyKey == "strategy"

labels == << labelClusterIDKey, labelResourceIDKey, labelNamespaceKey,
             labelInstanceIDKey, labelProductNameKey, labelStrategyKey >>

AWSDeploymentStrategy == "aws"
StatisticAverage == "Average"

PostgresFreeStorageAverage == "PostgresFreeStorageAverage"
PostgresCPUUtilizationAverage == "PostgresCPUUtilizationAverage"
PostgresFreeableMemoryAverage == "PostgresFreeableMemoryAverage"
RedisMemoryUsagePercentageAverage == "RedisMemoryUsagePercentageAverage"
RedisFreeableMemoryAverage == "RedisFreeableMemoryAverage"
RedisCPUUtilizationAverage == "RedisCPUUtilizationAverage"

\* One catalog entry: the gauge vector is identified by the name it was made with.
CroGaugeMetric(name, providerMetricName) ==
    [ Name |-> name,
      GaugeVec |-> name,
      ProviderType |-> [ s \in {AWSDeploymentStrategy} |->
                           [ PromethuesMetricName |-> name,
                             ProviderMetricName |-> providerMetricName,
                             Statistic |-> StatisticAverage ] ] ]

postgresGaugeMetrics ==
    << CroGaugeMetric(PostgresFreeStorageAverage, "FreeStorageSpace"),
       CroGaugeMetric(PostgresCPUUtilizationAverage, "CPUUtilization"),
       CroGaugeMetric(PostgresFreeableMemoryAverage, "FreeableMemory") >>

redisGaugeMetrics ==
    << CroGaugeMetric(RedisMemoryUsagePercentageAverage, "DatabaseMemoryUsagePercentage"),
       CroGaugeMetric(RedisFreeableMemoryAverage, "FreeableMemory"),
       CroGaugeMetric(RedisCPUUtilizationAverage, "CPUUtilization") >>

\* Set the reconcile duration for this controller (seconds).
watchDuration == 600

CatalogNames(gaugeMetrics) == { gaugeMetrics[k].Name : k \in 1..Len(gaugeMetrics) }

----------------------------------------------------------------------------
(* setGaugeMetrics *)

\* scrapedMetric.Labels[key]: a Go map read, "" for a key that is not there
LabelValue(sampleLabels, key) ==
    IF key \in DOMAIN sampleLabels THEN sampleLabels[key] ELSE ""

\* the arguments of WithLabelValues, in the order of the label keys
LabelValues(sampleLabels) ==
    [ k \in 1..Len(labels) |-> LabelValue(sampleLabels, labels[k]) ]

\* faulty variant: the name comparison is lost: every catalog entry takes the sample
RECURSIVE SetCallsForSampleAnyName(_, _, _)
SetCallsForSampleAnyName(gaugeMetrics, k, scrapedMetric) ==
    IF k > Len(gaugeMetrics) THEN << >>
    ELSE << [ GaugeVec |-> gaugeMetrics[k].GaugeVec,
              LabelValues |-> LabelValues(scrapedMetric.Labels),
              Value |-> scrapedMetric.Value ] >>
         \o SetCallsForSampleAnyName(gaugeMetrics, k + 1, scrapedMetric)

\* the inner loop: every catalog entry from k on is compared with the sample;
\* a match makes one Set call and the loop goes on (continue) with the next entry
RECURSIVE SetCallsForSample(_, _, _)
SetCallsForSample(gaugeMetrics, k, scrapedMetric) ==
    IF k > Len(gaugeMetrics) THEN << >>
    ELSE IF scrapedMetric.Name = gaugeMetrics[k].Name
         THEN << [ GaugeVec |-> gaugeMetrics[k].GaugeVec,
                   LabelValues |-> LabelValues(scrapedMetric.Labels),
                   Value |-> scrapedMetric.Value ] >>
              \o SetCallsForSample(gaugeMetrics, k + 1, scrapedMetric)
         ELSE SetCallsForSample(gaugeMetrics, k + 1, scrapedMetric)

\* the outer loop: the Set calls of setGaugeMetrics, in the order they are made
RECURSIVE SetCalls(_, _)
SetCalls(gaugeMetrics, scraped) ==
    IF scraped = << >> THEN << >>
    ELSE SetCallsForSample(gaugeMetrics, 1, Head(scraped))
         \o SetCalls(gaugeMetrics, Tail(scraped))

\* faulty variant: a series that has a value keeps it: first write wins
GaugeSetKeep(g, call) ==
    LET key == << call.GaugeVec, call.LabelValues >>
    IN [ s \in (DOMAIN g) \cup {key} |-> IF s \in DOMAIN g THEN g[s] ELSE call.Value ]

\* faulty variant: Add in place of Set: the value is added to the series
GaugeAdd(g, call) ==
    LET key == << call.GaugeVec, call.LabelValues >>
    IN [ s \in (DOMAIN g) \cup {key} |->
           IF s = key THEN (IF s \in DOMAIN g THEN g[s] ELSE 0) + call.Value ELSE g[s] ]

\* GaugeVec.WithLabelValues(...).Set(v): the series is created when it is not
\* there and its value becomes v
GaugeSet(g, call) ==
    LET key == << call.GaugeVec, call.LabelValues >>
    IN [ s \in (DOMAIN g) \cup {key} |-> IF s = key THEN call.Value ELSE g[s] ]

RECURSIVE ApplySetCalls(_, _)
ApplySetCalls(g, calls) ==
    IF calls = << >> THEN g
    ELSE ApplySetCalls(GaugeSet(g, Head(calls)), Tail(calls))

\* faulty variant: the gauge vectors of the catalog are reset before the samples are set
setGaugeMetricsReset(gaugeMetrics, scraped, g) ==
    LET vecs == { gaugeMetrics[k].GaugeVec : k \in 1..Len(gaugeMetrics) }
        kept == { s \in DOMAIN g : s[1] \notin vecs }
    IN ApplySetCalls([ s \in kept |-> g[s] ], SetCalls(gaugeMetrics, scraped))

setGaugeMetrics(gaugeMetrics, scraped, g) ==
    ApplySetCalls(g, SetCalls(gaugeMetrics, scraped))

----------------------------------------------------------------------------
(* The environment: custom resources, providers, what a scrape returns *)

Strategies == { AWSDeploymentStrategy, "gcp" }
InstanceNames == { "i1", "i2" }
Instances == [ Name : InstanceNames, Strategy : Strategies ]
Values == { 1, 2 }

\* what a List call can put in Items when the cluster holds at most n more
\* resources: instances with different names, in any order
InstanceLists(n) ==
    { l \in UNION { [ 1..m -> Instances ] : m \in 0..Cardinality(InstanceNames) } :
        /\ Len(l) <= n
        /\ \A a, b \in 1..Len(l) : a # b => l[a].Name # l[b].Name }

\* the providers newReconciler builds: one AWS provider per kind
redisProviderList == << [ Strategy |-> AWSDeploymentStrategy ] >>
postgresProviderList == << [ Strategy |-> AWSDeploymentStrategy ] >>

\* p.SupportsStrategy(strategy) of the AWS providers
SupportsStrategy(p, strategy) == strategy = p.Strategy

\* the label set a provider puts on the samples of one instance
InstanceLabels(inst) ==
    [ k \in { labels[n] : n \in 1..Len(labels) } |->
        CASE k = labelClusterIDKey -> "c1"
          [] k = labelResourceIDKey -> inst.Name
          [] k = labelNamespaceKey -> "ns1"
          [] k = labelInstanceIDKey -> inst.Name
          [] k = labelProductNameKey -> "p1"
          [] k = labelStrategyKey -> inst.Strategy ]

\* names a provider may put on a sample: one of each catalog
SampleNames == { RedisMemoryUsagePercentageAverage, PostgresFreeStorageAverage }

GenericCloudMetric(name, value, sampleLabels) ==
    [ Name |-> name, Value |-> value, Labels |-> sampleLabels ]

\* what ScrapeRedisMetrics / ScrapePostgresMetrics can return for an instance:
\* an error, or an output with no sample or with one sample
ScrapeOutcomes(inst) ==
    { [ err |-> TRUE, Metrics |-> << >> ], [ err |-> FALSE, Metrics |-> << >> ] }
    \cup { [ err |-> FALSE,
             Metrics |-> << GenericCloudMetric(n, v, InstanceLabels(inst)) >> ] :
           n \in SampleNames, v \in Values }

\* resources.GetMetricReconcileTimeOrDefault: the configured interval, the
\* default when none is configured
GetMetricReconcileTimeOrDefault(default) == default

EmptyGauges == [ s \in {} |-> 0 ]
NoResult == [ returned |-> FALSE, RequeueAfter |-> 0, err |-> FALSE ]

----------------------------------------------------------------------------
(* Add(): newReconciler, then add() *)

Init ==
    /\ addPc = "newReconciler"
    /\ registered = << >>
    /\ kick = "none"
    /\ watching = FALSE
    /\ queue = {}
    /\ pc = "idle"
    /\ trigger = "none"
    /\ redisInstances = << >>
    /\ postgresInstances = << >>
    /\ idx = 1
    /\ pidx = 1
    /\ scrapedMetrics = << >>
    /\ gauges = EmptyGauges
    /\ result = NoResult
    /\ listLog = [ k \in {} |-> "ok" ]
    /\ scrapeLog = << >>
    /\ setLog = << >>
    /\ pub = [ on |-> FALSE ]

passVars == << pc, trigger, redisInstances, postgresInstances, idx, pidx,
               scrapedMetrics, gauges, result, listLog, scrapeLog, setLog >>

\* faulty variant: the second loop runs over the postgres catalog again
registerGaugeVectorMetricsPostgresTwice(reg) ==
    reg \o [ k \in 1..Len(postgresGaugeMetrics) |-> postgresGaugeMetrics[k].GaugeVec ]
        \o [ k \in 1..Len(postgresGaugeMetrics) |-> postgresGaugeMetrics[k].GaugeVec ]

\* registerGaugeVectorMetrics: MustRegister for every postgres, then every redis gauge
registerGaugeVectorMetrics(reg) ==
    reg \o [ k \in 1..Len(postgresGaugeMetrics) |-> postgresGaugeMetrics[k].GaugeVec ]
        \o [ k \in 1..Len(redisGaugeMetrics) |-> redisGaugeMetrics[k].GaugeVec ]

newReconciler ==
    /\ addPc = "newReconciler"
    /\ registered' = registerGaugeVectorMetrics(registered)
    /\ addPc' = "controllerNew"
    /\ UNCHANGED << kick, watching, queue, passVars, pub >>

\* controller.New(...): an error makes add() return it
ControllerNew ==
    /\ addPc = "controllerNew"
    /\ \E ok \in BOOLEAN : addPc' = IF ok THEN "goKick" ELSE "failed"
    /\ UNCHANGED << registered, kick, watching, queue, passVars, pub >>

\* faulty variant: the send is made by add() itself: with nothing receiving from
\* the unbuffered channel yet, add() stays at the send and never calls Watch
GoKickInline ==
    /\ addPc = "goKick"
    /\ kick' = "blocked"
    /\ addPc' = "sending"
    /\ UNCHANGED << registered, watching, queue, passVars, pub >>

\* go func() { events <- GenericEvent }: the goroutine blocks on the unbuffered
\* channel, add() goes on
GoKick ==
    /\ addPc = "goKick"
    /\ kick' = "blocked"
    /\ addPc' = "watch"
    /\ UNCHANGED << registered, watching, queue, passVars, pub >>

\* c.Watch(&source.Channel{Source: events}, &handler.EnqueueRequestForObject{})
Watch ==
    /\ addPc = "watch"
    /\ \E ok \in BOOLEAN :
         /\ watching' = ok
         /\ addPc' = IF ok THEN "done" ELSE "failed"
    /\ UNCHANGED << registered, kick, queue, passVars, pub >>

\* the channel source receives the goroutine's event and the handler queues the
\* request
KickSend ==
    /\ kick = "blocked"
    /\ watching
    /\ kick' = "sent"
    /\ queue' = queue \cup { "kick" }
    /\ UNCHANGED << addPc, registered, watching, passVars, pub >>

----------------------------------------------------------------------------
(* Reconcile() *)

\* faulty variant: scrapedMetrics outlives the call, as a field of the reconciler
\* would: the samples of the pass before are still in it
ReconcileBeginKeep ==
    /\ pc = "idle"
    /\ \E cause \in queue :
         /\ queue' = queue \ { cause }
         /\ trigger' = cause
    /\ pc' = "listRedis"
    /\ UNCHANGED << addPc, registered, kick, watching, redisInstances,
                    postgresInstances, idx, pidx, scrapedMetrics, gauges, result,
                    listLog, scrapeLog, setLog, pub >>

\* the controller's single worker takes the queued request and calls Reconcile
ReconcileBegin ==
    /\ pc = "idle"
    /\ \E cause \in queue :
         /\ queue' = queue \ { cause }
         /\ trigger' = cause
    /\ scrapedMetrics' = << >>
    /\ pc' = "listRedis"
    /\ UNCHANGED << addPc, registered, kick, watching, redisInstances,
                    postgresInstances, idx, pidx, gauges, result, listLog,
                    scrapeLog, setLog, pub >>

\* r.client.List: an error, or the items
ListOutcomes(n) ==
    { [ err |-> TRUE, Items |-> << >> ] }
    \cup { [ err |-> FALSE, Items |-> l ] : l \in InstanceLists(n) }

\* fetch all redis crs; on an error: return reconcile.Result{}, err
ListRedis ==
    /\ pc = "listRedis"
    /\ \E r \in ListOutcomes(MaxResources) :
         /\ listLog' = ("redis" :> (IF r.err THEN "failed" ELSE "ok")) @@ listLog
         /\ IF r.err
            THEN /\ result' = [ returned |-> TRUE, RequeueAfter |-> 0, err |-> TRUE ]
                 /\ pc' = "done"
                 /\ UNCHANGED redisInstances
            ELSE /\ redisInstances' = r.Items
                 /\ pc' = IF r.Items = << >> THEN "publishRedis" ELSE "scrapeRedis"
                 /\ UNCHANGED result
    /\ idx' = 1
    /\ pidx' = 1
    /\ UNCHANGED << addPc, registered, kick, watching, queue, trigger,
                    postgresInstances, scrapedMetrics, gauges, scrapeLog, setLog, pub >>

\* faulty variant: the strategy check is lost: every provider scrapes every instance
ScrapeFilterAll(p, strategy) == TRUE

\* only scrape metrics on supported strategies
ScrapeFilter(p, strategy) == SupportsStrategy(p, strategy)

\* faulty variant: the key of ProviderType is not compared with the strategy of
\* the instance: the query of the AWS strategy is taken for every instance
MetricTypesFixedStrategy(gaugeMetrics, strategy) ==
    LET having == SelectSeq(gaugeMetrics,
                            LAMBDA e : AWSDeploymentStrategy \in DOMAIN e.ProviderType)
    IN [ k \in 1..Len(having) |-> having[k].ProviderType[AWSDeploymentStrategy] ]

\* the provider specific metric types of the catalog for one strategy: for each
\* gauge metric in order, the entry of ProviderType whose key is the strategy
RECURSIVE MetricTypes(_, _)
MetricTypes(gaugeMetrics, strategy) ==
    IF gaugeMetrics = << >> THEN << >>
    ELSE LET gaugeMetric == Head(gaugeMetrics)
         IN (IF strategy \in DOMAIN gaugeMetric.ProviderType
             THEN << gaugeMetric.ProviderType[strategy] >>
             ELSE << >>)
            \o MetricTypes(Tail(gaugeMetrics), strategy)

\* faulty variant: a failed scrape leaves the loops and goes to the final return
OnScrapeErrorReturn(next) == "requeue"

\* where the loop goes after a failed scrape: continue, that is the next iteration
OnScrapeError(next) == next

\* scrapedMetrics after a scrape that returned without error
AppendScraped(acc, out) == acc \o out.Metrics

\* one iteration of the provider loop inside the instance loop of a kind
ScrapeStep(kind, instances, providerList, gaugeMetrics, donePc) ==
    LET inst == instances[idx]
        p == providerList[pidx]
        more == pidx < Len(providerList)
        nextIdx == IF more THEN idx ELSE idx + 1
        nextPc == IF nextIdx > Len(instances) THEN donePc ELSE pc
    IN /\ idx' = nextIdx
       /\ pidx' = IF more THEN pidx + 1 ELSE 1
       /\ IF ~ScrapeFilter(p, inst.Strategy)
          THEN /\ pc' = nextPc
               /\ UNCHANGED << scrapedMetrics, scrapeLog >>
          ELSE \E out \in ScrapeOutcomes(inst) :
                 /\ scrapeLog' = Append(scrapeLog,
                        [ kind |-> kind, inst |-> inst,
                          types |-> MetricTypes(gaugeMetrics, inst.Strategy),
                          out |-> out ])
                 /\ IF out.err
                    THEN /\ pc' = OnScrapeError(nextPc)
                         /\ UNCHANGED scrapedMetrics
                    ELSE /\ pc' = nextPc
                         /\ scrapedMetrics' = AppendScraped(scrapedMetrics, out)

ScrapeRedis ==
    /\ pc = "scrapeRedis"
    /\ ScrapeStep("redis", redisInstances, redisProviderList, redisGaugeMetrics,
                  "publishRedis")
    /\ UNCHANGED << addPc, registered, kick, watching, queue, trigger, redisInstances,
                    postgresInstances, gauges, result, listLog, setLog, pub >>

\* r.setGaugeMetrics(redisGaugeMetrics, scrapedMetrics)
PublishRedis ==
    /\ pc = "publishRedis"
    /\ gauges' = setGaugeMetrics(redisGaugeMetrics, scrapedMetrics, gauges)
    /\ setLog' = setLog \o SetCalls(redisGaugeMetrics, scrapedMetrics)
    /\ pc' = "listPostgres"
    /\ UNCHANGED << addPc, registered, kick, watching, queue, trigger, redisInstances,
                    postgresInstances, idx, pidx, scrapedMetrics, result, listLog,
                    scrapeLog, pub >>

\* fetch all postgres crs; an error is logged and the items stay empty
ListPostgres ==
    /\ pc = "listPostgres"
    /\ \E r \in ListOutcomes(MaxResources - Len(redisInstances)) :
         /\ listLog' = ("postgres" :> (IF r.err THEN "failed" ELSE "ok")) @@ listLog
         /\ postgresInstances' = r.Items
         /\ pc' = IF r.Items = << >> THEN "publishPostgres" ELSE "scrapePostgres"
    /\ idx' = 1
    /\ pidx' = 1
    /\ UNCHANGED << addPc, registered, kick, watching, queue, trigger, redisInstances,
                    scrapedMetrics, gauges, result, scrapeLog, setLog, pub >>

ScrapePostgres ==
    /\ pc = "scrapePostgres"
    /\ ScrapeStep("postgres", postgresInstances, postgresProviderList,
                  postgresGaugeMetrics, "publishPostgres")
    /\ UNCHANGED << addPc, registered, kick, watching, queue, trigger, redisInstances,
                    postgresInstances, gauges, result, listLog, setLog, pub >>

\* faulty variant: the second publish is made against both catalogs
PublishPostgresAllCatalogs ==
    /\ pc = "publishPostgres"
    /\ gauges' = setGaugeMetrics(redisGaugeMetrics \o postgresGaugeMetrics,
                                 scrapedMetrics, gauges)
    /\ setLog' = setLog \o SetCalls(redisGaugeMetrics \o postgresGaugeMetrics,
                                    scrapedMetrics)
    /\ pc' = "requeue"
    /\ UNCHANGED << addPc, registered, kick, watching, queue, trigger, redisInstances,
                    postgresInstances, idx, pidx, scrapedMetrics, result, listLog,
                    scrapeLog, pub >>

\* r.setGaugeMetrics(postgresGaugeMetrics, scrapedMetrics)
PublishPostgres ==
    /\ pc = "publishPostgres"
    /\ gauges' = setGaugeMetrics(postgresGaugeMetrics, scrapedMetrics, gauges)
    /\ setLog' = setLog \o SetCalls(postgresGaugeMetrics, scrapedMetrics)
    /\ pc' = "requeue"
    /\ UNCHANGED << addPc, registered, kick, watching, queue, trigger, redisInstances,
                    postgresInstances, idx, pidx, scrapedMetrics, result, listLog,
                    scrapeLog, pub >>

\* faulty variant: the final return gives an empty Result
RequeueResultEmpty == [ returned |-> TRUE, RequeueAfter |-> 0, err |-> FALSE ]

\* the result of the final return of Reconcile
RequeueResult ==
    [ returned |-> TRUE,
      RequeueAfter |-> GetMetricReconcileTimeOrDefault(watchDuration),
      err |-> FALSE ]

\* return reconcile.Result{RequeueAfter: ...}, nil
Requeue ==
    /\ pc = "requeue"
    /\ result' = RequeueResult
    /\ pc' = "done"
    /\ UNCHANGED << addPc, registered, kick, watching, queue, trigger, redisInstances,
                    postgresInstances, idx, pidx, scrapedMetrics, gauges, listLog,
                    scrapeLog, setLog, pub >>

\* the controller acts on what Reconcile returned: an error queues the request
\* again (rate limited), RequeueAfter queues it again after that time, and the
\* worker is free for the next request
HandleResult ==
    /\ pc = "done"
    /\ queue' = IF result.err THEN queue \cup { "errorRetry" }
                ELSE IF result.RequeueAfter > 0 THEN queue \cup { "requeueAfter" }
                ELSE queue
    /\ pc' = "idle"
    /\ trigger' = "none"
    /\ redisInstances' = << >>
    /\ postgresInstances' = << >>
    /\ idx' = 1
    /\ pidx' = 1
    /\ result' = NoResult
    /\ listLog' = [ k \in {} |-> "ok" ]
    /\ scrapeLog' = << >>
    /\ setLog' = << >>
    /\ UNCHANGED << addPc, registered, kick, watching, scrapedMetrics, gauges, pub >>

Next ==
    \/ newReconciler
    \/ ControllerNew
    \/ GoKick
    \/ Watch
    \/ KickSend
    \/ ReconcileBegin
    \/ ListRedis
    \/ ScrapeRedis
    \/ PublishRedis
    \/ ListPostgres
    \/ ScrapePostgres
    \/ PublishPostgres
    \/ Requeue
    \/ HandleResult

Spec == Init /\ [][Next]_vars

----------------------------------------------------------------------------
(* setGaugeMetrics on its own: any catalog, any samples, any gauge state *)

\* a catalog with two entries of one name, each with its own gauge vector
DuplicateNameCatalog ==
    << [ CroGaugeMetric(RedisMemoryUsagePercentageAverage, "first")
           EXCEPT !.GaugeVec = "first" ],
       [ CroGaugeMetric(RedisMemoryUsagePercentageAverage, "second")
           EXCEPT !.GaugeVec = "second" ] >>

PubCatalogs == { redisGaugeMetrics, postgresGaugeMetrics, DuplicateNameCatalog }

PubSampleNames ==
    { RedisMemoryUsagePercentageAverage, PostgresFreeStorageAverage, "unknown_metric" }

FullLabels == InstanceLabels([ Name |-> "i1", Strategy |-> AWSDeploymentStrategy ])

\* label maps of samples: all six keys, and one without the strategy key
PubLabels ==
    { FullLabels,
      [ k \in (DOMAIN FullLabels) \ { labelStrategyKey } |-> FullLabels[k] ] }

PubSamples ==
    { GenericCloudMetric(n, v, l) : n \in PubSampleNames, v \in Values, l \in PubLabels }

PubSampleSeqs == UNION { [ 1..n -> PubSamples ] : n \in 0..MaxPubSamples }

\* series the gauge state may hold before the call
PubSeries ==
    { << RedisMemoryUsagePercentageAverage, LabelValues(FullLabels) >>,
      << PostgresFreeStorageAverage, LabelValues(FullLabels) >>,
      << "second", LabelValues(FullLabels) >> }

PubGaugeStates == UNION { [ d -> Values ] : d \in SUBSET PubSeries }

PubInit ==
    /\ addPc = "newReconciler"
    /\ registered = << >>
    /\ kick = "none"
    /\ watching = FALSE
    /\ queue = {}
    /\ pc = "idle"
    /\ trigger = "none"
    /\ redisInstances = << >>
    /\ postgresInstances = << >>
    /\ idx = 1
    /\ pidx = 1
    /\ scrapedMetrics = << >>
    /\ result = NoResult
    /\ listLog = [ k \in {} |-> "ok" ]
    /\ scrapeLog = << >>
    /\ setLog = << >>
    /\ gauges \in PubGaugeStates
    /\ \E c \in PubCatalogs, sm \in PubSampleSeqs :
         pub = [ on |-> TRUE, catalog |-> c, samples |-> sm, before |-> gauges,
                 calls |-> 0, afterFirst |-> gauges ]

\* r.setGaugeMetrics(catalog, samples)
PublishCall ==
    /\ pub.on
    /\ pub.calls < MaxPubCalls
    /\ gauges' = setGaugeMetrics(pub.catalog, pub.samples, gauges)
    /\ pub' = [ pub EXCEPT !.calls = @ + 1,
                           !.afterFirst = IF pub.calls = 0 THEN gauges' ELSE @ ]
    /\ UNCHANGED << addPc, registered, kick, watching, queue, pc, trigger,
                    redisInstances, postgresInstances, idx, pidx, scrapedMetrics,
                    result, listLog, scrapeLog, setLog >>

PubNext == PublishCall

PubSpec == PubInit /\ [][PubNext]_vars

----------------------------------------------------------------------------
(* Properties of setGaugeMetrics (PubSpec) *)

\* the first catalog entry with the name
FirstMatch(gaugeMetrics, name) ==
    CHOOSE k \in 1..Len(gaugeMetrics) :
        /\ gaugeMetrics[k].Name = name
        /\ \A j \in 1..(k - 1) : gaugeMetrics[j].Name # name

\* positions of the samples with the name and the label values
SamplesOf(samples, name, labelValues) ==
    { n \in 1..Len(samples) :
        samples[n].Name = name /\ LabelValues(samples[n].Labels) = labelValues }

Max(S) == CHOOSE x \in S : \A y \in S : y <= x

\* the value of the last sample with the name and the label values
LastValue(samples, name, labelValues) ==
    samples[Max(SamplesOf(samples, name, labelValues))].Value

\* the samples that can reach the series: their name is that of a catalog entry
\* with the gauge vector of the series, their label values those of the series
SamplesForSeries(gaugeMetrics, samples, key) ==
    { n \in 1..Len(samples) :
        /\ LabelValues(samples[n].Labels) = key[2]
        /\ \E k \in 1..Len(gaugeMetrics) :
             gaugeMetrics[k].Name = samples[n].Name /\ gaugeMetrics[k].GaugeVec = key[1] }

\* C6: after publish(catalog, samples) the series (name, label values) of every
\* sample whose name is in the catalog holds the value of the last sample of the
\* sequence with that name and those label values, whatever it held before.
C6_LastWriteWins ==
    (pub.on /\ pub.calls >= 1) =>
        \A n \in 1..Len(pub.samples) :
            LET sample == pub.samples[n]
            IN sample.Name \in CatalogNames(pub.catalog) =>
                 LET key == << pub.catalog[FirstMatch(pub.catalog, sample.Name)].GaugeVec,
                               LabelValues(sample.Labels) >>
                 IN /\ key \in DOMAIN gauges
                    /\ gauges[key] =
                         LastValue(pub.samples, sample.Name, LabelValues(sample.Labels))

\* a series that held a value was overwritten by the second of two samples of its
\* name and label values
C6_Witness ==
    /\ pub.on
    /\ pub.calls = 1
    /\ Len(pub.samples) = 2
    /\ pub.samples[1].Name = pub.samples[2].Name
    /\ LabelValues(pub.samples[1].Labels) = LabelValues(pub.samples[2].Labels)
    /\ pub.samples[1].Value # pub.samples[2].Value
    /\ pub.samples[1].Name \in CatalogNames(pub.catalog)
    /\ LET key == << pub.samples[2].Name, LabelValues(pub.samples[2].Labels) >>
       IN /\ key \in DOMAIN pub.before
          /\ pub.before[key] = pub.samples[1].Value
          /\ gauges[key] = pub.samples[2].Value

\* C7: a sample whose name matches no entry of the catalog changes nothing: a
\* series no matching sample addresses is there after publish() exactly when it
\* was there before, with the value it had; when no sample matches, the gauge
\* state is the one before the call.
C7_UnmatchedLeavesGauges ==
    (pub.on /\ pub.calls >= 1) =>
        /\ \A key \in (DOMAIN gauges) \cup (DOMAIN pub.before) :
             SamplesForSeries(pub.catalog, pub.samples, key) = {} =>
                 /\ key \in DOMAIN pub.before
                 /\ key \in DOMAIN gauges
                 /\ gauges[key] = pub.before[key]
        /\ (\A n \in 1..Len(pub.samples) :
                pub.samples[n].Name \notin CatalogNames(pub.catalog))
             => gauges = pub.before

\* samples were published, none with a name of the catalog, to gauges that held
\* values: the gauge state is the one before
C7_Witness ==
    /\ pub.on
    /\ pub.calls = 1
    /\ Len(pub.samples) = 2
    /\ \A n \in 1..Len(pub.samples) :
         pub.samples[n].Name \notin CatalogNames(pub.catalog)
    /\ \E n \in 1..Len(pub.samples) : pub.samples[n].Name = "unknown_metric"
    /\ pub.before # EmptyGauges
    /\ gauges = pub.before

\* C8: publish() is idempotent: the gauge state after a second call with the
\* same catalog and samples is the gauge state after the first.
C8_Idempotent ==
    (pub.on /\ pub.calls >= 2) => gauges = pub.afterFirst

\* a second call was made after a first one that changed the gauges
C8_Witness ==
    /\ pub.on
    /\ pub.calls = 2
    /\ pub.afterFirst # pub.before
    /\ Len(pub.samples) = 2
    /\ gauges = pub.afterFirst

----------------------------------------------------------------------------
(* Properties of a pass of Reconcile() (Spec) *)

Kinds == { "redis", "postgres" }
KindInstances(kind) == IF kind = "redis" THEN redisInstances ELSE postgresInstances
KindProviders(kind) == IF kind = "redis" THEN redisProviderList ELSE postgresProviderList
KindCatalog(kind) == IF kind = "redis" THEN redisGaugeMetrics ELSE postgresGaugeMetrics

ConfiguredInterval == GetMetricReconcileTimeOrDefault(watchDuration)

ListFailed(kind) == kind \in DOMAIN listLog /\ listLog[kind] = "failed"
ListOk(kind) == kind \in DOMAIN listLog /\ listLog[kind] = "ok"

\* no provider of the kind supports the strategy
Unsupported(kind, strategy) ==
    \A j \in 1..Len(KindProviders(kind)) :
        ~SupportsStrategy(KindProviders(kind)[j], strategy)

\* the samples of the scrape calls that returned without error, in call order
RECURSIVE ReturnedSamples(_)
ReturnedSamples(log) ==
    IF log = << >> THEN << >>
    ELSE (IF Head(log).out.err THEN << >> ELSE Head(log).out.Metrics)
         \o ReturnedSamples(Tail(log))

\* a Set call of this pass put the sample on the gauge of its name
Published(sample) ==
    \E c \in 1..Len(setLog) :
        /\ setLog[c].GaugeVec = sample.Name
        /\ setLog[c].LabelValues = LabelValues(sample.Labels)
        /\ setLog[c].Value = sample.Value

\* the samples of the kind's catalog that a scrape of the kind returned are
\* published
KindSamplesPublished(kind) ==
    \A m \in 1..Len(scrapeLog) :
        (scrapeLog[m].kind = kind /\ ~scrapeLog[m].out.err) =>
            \A n \in 1..Len(scrapeLog[m].out.Metrics) :
                LET sample == scrapeLog[m].out.Metrics[n]
                IN sample.Name \in CatalogNames(KindCatalog(kind)) =>
                     /\ Published(sample)
                     /\ << sample.Name, LabelValues(sample.Labels) >> \in DOMAIN gauges

\* C1: every return of Reconcile() carries RequeueAfter = the configured interval,
\* whatever the two List calls did.
C1_AlwaysRequeue ==
    pc = "done" => result.RequeueAfter = ConfiguredInterval

\* C2: a failed List aborts only its kind's part of the pass: after a failed redis
\* List the pass still lists postgres, scrapes every postgres instance with a
\* supporting provider and publishes its samples; after a failed postgres List the
\* redis samples are published and postgres has no instances.
C2_ListFailureIsolated ==
    pc = "done" =>
        /\ "postgres" \in DOMAIN listLog
        /\ \A n \in 1..Len(postgresInstances) :
             ~Unsupported("postgres", postgresInstances[n].Strategy) =>
                 \E m \in 1..Len(scrapeLog) :
                     /\ scrapeLog[m].kind = "postgres"
                     /\ scrapeLog[m].inst = postgresInstances[n]
        /\ KindSamplesPublished("postgres")
        /\ ListFailed("postgres") =>
             (postgresInstances = << >> /\ KindSamplesPublished("redis"))

\* the half of C2 about a failed postgres List, which the code keeps
C2_PostgresFailureHalf ==
    (pc = "done" /\ ListFailed("postgres")) =>
        /\ postgresInstances = << >>
        /\ KindSamplesPublished("redis")
        /\ \A m \in 1..Len(scrapeLog) : scrapeLog[m].kind = "redis"

\* C3: when, in one pass and one kind, the scrape of instance I fails and the
\* scrape of instance J succeeds, the samples J returned are published in that
\* pass, in whichever order I and J were listed, and the failed scrape adds no
\* sample: scrapedMetrics is what the successful scrapes returned.
C3_PartialFailureIsolation ==
    /\ pc # "idle" => scrapedMetrics = ReturnedSamples(scrapeLog)
    /\ pc = "done" =>
         \A a, b \in 1..Len(scrapeLog) :
             ( /\ scrapeLog[a].kind = scrapeLog[b].kind
               /\ scrapeLog[a].out.err
               /\ ~scrapeLog[b].out.err ) =>
                 \A n \in 1..Len(scrapeLog[b].out.Metrics) :
                     LET sample == scrapeLog[b].out.Metrics[n]
                     IN sample.Name \in CatalogNames(KindCatalog(scrapeLog[b].kind)) =>
                          /\ Published(sample)
                          /\ << sample.Name, LabelValues(sample.Labels) >> \in DOMAIN gauges
                          /\ gauges[<< sample.Name, LabelValues(sample.Labels) >>]
                               \in { setLog[c].Value : c \in 1..Len(setLog) }

\* a pass ended in which J was scraped with success before I of the same kind
\* failed, and J's sample of the kind's catalog is the value of its series
C3_Witness ==
    /\ pc = "done"
    /\ \E a, b \in 1..Len(scrapeLog) :
         /\ b < a
         /\ scrapeLog[a].kind = scrapeLog[b].kind
         /\ scrapeLog[a].out.err
         /\ ~scrapeLog[b].out.err
         /\ Len(scrapeLog[b].out.Metrics) = 1
         /\ LET sample == scrapeLog[b].out.Metrics[1]
            IN /\ sample.Name \in CatalogNames(KindCatalog(scrapeLog[b].kind))
               /\ << sample.Name, LabelValues(sample.Labels) >> \in DOMAIN gauges
               /\ gauges[<< sample.Name, LabelValues(sample.Labels) >>] = sample.Value

\* C4: Reconcile() returns an error only in a pass where a List call failed; when
\* both List calls succeed it returns no error and RequeueAfter = the interval,
\* whatever the scrapes returned.
C4_ErrorOnlyFromListing ==
    pc = "done" =>
        /\ result.returned
        /\ result.err => (ListFailed("redis") \/ ListFailed("postgres"))
        /\ (ListOk("redis") /\ ListOk("postgres")) =>
             (~result.err /\ result.RequeueAfter = ConfiguredInterval)

\* a pass with both List calls fine, a failed scrape and a sample of no catalog
\* of its kind returned without error
C4_Witness ==
    /\ pc = "done"
    /\ ListOk("redis")
    /\ ListOk("postgres")
    /\ \E m \in 1..Len(scrapeLog) : scrapeLog[m].out.err
    /\ \E m \in 1..Len(scrapeLog) :
         /\ scrapeLog[m].kind = "postgres"
         /\ Len(scrapeLog[m].out.Metrics) = 1
         /\ scrapeLog[m].out.Metrics[1].Name \notin CatalogNames(postgresGaugeMetrics)
    /\ ~result.err
    /\ result.RequeueAfter = ConfiguredInterval

\* C5: for an instance whose strategy no provider of its kind supports, no scrape
\* call is made, every sample of scrapedMetrics and every Set call of the pass
\* comes from a scrape of another instance, and the pass returns without error.
C5_UnsupportedSkipped ==
    \A kind \in Kinds :
        \A n \in 1..Len(KindInstances(kind)) :
            LET inst == KindInstances(kind)[n]
            IN Unsupported(kind, inst.Strategy) =>
                 /\ \A m \in 1..Len(scrapeLog) :
                      ~(scrapeLog[m].kind = kind /\ scrapeLog[m].inst = inst)
                 /\ scrapedMetrics = ReturnedSamples(scrapeLog)
                 /\ \A c \in 1..Len(setLog) :
                      \E k \in 1..Len(scrapedMetrics) :
                          /\ setLog[c].GaugeVec = scrapedMetrics[k].Name
                          /\ setLog[c].LabelValues = LabelValues(scrapedMetrics[k].Labels)
                          /\ setLog[c].Value = scrapedMetrics[k].Value
                 /\ \A c \in 1..Len(setLog) :
                      setLog[c].LabelValues # LabelValues(InstanceLabels(inst))
                 /\ pc = "done" => ~result.err

\* a pass ended that listed an instance of an unsupported strategy before an
\* instance that was scraped and whose sample was set
C5_Witness ==
    /\ pc = "done"
    /\ Len(redisInstances) = 2
    /\ Unsupported("redis", redisInstances[1].Strategy)
    /\ Len(scrapeLog) = 1
    /\ scrapeLog[1].inst = redisInstances[2]
    /\ Len(setLog) = 1
    /\ ~result.err

----------------------------------------------------------------------------
(* Properties across passes (Spec) *)

\* the Set calls the step makes: those a publish step adds to setLog
NewSetCalls ==
    IF pc \in { "publishRedis", "publishPostgres" }
    THEN SubSeq(setLog', Len(setLog) + 1, Len(setLog'))
    ELSE << >>

CallsOn(calls, key) ==
    { c \in 1..Len(calls) : << calls[c].GaugeVec, calls[c].LabelValues >> = key }

\* a step keeps every series; a series changes, or appears, only in a step that
\* makes a Set call on it, and then holds the value of the last such call
StaleStep ==
    LET calls == NewSetCalls
    IN /\ (DOMAIN gauges) \subseteq (DOMAIN gauges')
       /\ \A key \in DOMAIN gauges' :
            IF CallsOn(calls, key) # {}
            THEN gauges'[key] = calls[Max(CallsOn(calls, key))].Value
            ELSE key \in DOMAIN gauges /\ gauges'[key] = gauges[key]

\* C9: a series that was set is never removed or reset and always holds the
\* value of the most recent sample published for it; a pass whose List or scrape
\* fails, and publishes nothing for the series, leaves it at that value.
C9_StaleValuesPersist == [][StaleStep]_vars

\* a pass ended without a Set call, after a failed scrape or a failed List, and
\* the gauges hold the values of an earlier pass
C9_Witness ==
    /\ pc = "done"
    /\ setLog = << >>
    /\ \/ ListFailed("redis")
       \/ \E m \in 1..Len(scrapeLog) : scrapeLog[m].out.err
    /\ \E key \in DOMAIN gauges : gauges[key] = 2
    /\ Cardinality(DOMAIN gauges) >= 2

\* C10: the loop is not re-entrant and a pass is started only by the start-up
\* kick or by the RequeueAfter of the pass before.
C10_SoleTrigger ==
    pc # "idle" => trigger \in { "kick", "requeueAfter" }

----------------------------------------------------------------------------
(* The loop under fair scheduling (LiveSpec) *)

\* the goroutine's send is received once the channel source runs, and the
\* controller's worker takes a queued request and handles what Reconcile returns
LiveSpec ==
    /\ Init
    /\ [][Next]_vars
    /\ WF_vars(KickSend)
    /\ WF_vars(ReconcileBegin)
    /\ WF_vars(HandleResult)

\* a step that queues the request for a later time does so on a result whose
\* RequeueAfter is the configured interval
RequeueStep ==
    ("requeueAfter" \in queue' /\ "requeueAfter" \notin queue) =>
        /\ pc = "done"
        /\ ~result.err
        /\ result.RequeueAfter = ConfiguredInterval

\* C11: the loop has no terminal state: after every pass that returned, whatever
\* failed in it, another pass starts, and a pass started by the requeue directive
\* starts the fixed configured interval after the pass before.
C11_LoopNeverEnds ==
    /\ (pc = "done") ~> (pc = "listRedis")
    /\ [][RequeueStep]_vars

\* a pass started by the requeue directive of a pass before that set gauges
C11_Witness ==
    /\ pc = "listRedis"
    /\ trigger = "requeueAfter"
    /\ gauges # EmptyGauges

----------------------------------------------------------------------------
(* Order of a pass, registration, samples of a pass (Spec) *)

\* C12: the steps of a pass come in the order list redis, scrape and publish
\* redis, list postgres, scrape and publish postgres, reschedule; a pass gives
\* exactly one reschedule directive, after both kinds were attempted.
C12_OneRescheduleAfterBothKinds ==
    /\ pc \in { "listPostgres", "scrapePostgres", "publishPostgres", "requeue" } =>
         ListOk("redis")
    /\ pc \in { "publishPostgres", "requeue" } => "postgres" \in DOMAIN listLog
    /\ pc = "done" =>
         /\ DOMAIN listLog = Kinds
         /\ ~result.err
         /\ result.RequeueAfter > 0


AllGaugeVecs ==
    { postgresGaugeMetrics[k].GaugeVec : k \in 1..Len(postgresGaugeMetrics) }
    \cup { redisGaugeMetrics[k].GaugeVec : k \in 1..Len(redisGaugeMetrics) }

RegisteredOnce(vec) == Cardinality({ n \in 1..Len(registered) : registered[n] = vec }) = 1

\* once the goroutine exists, a request is queued or a pass runs, every gauge of
\* both catalogs is registered, once; a Set call is made on a registered gauge
RegistrationComplete ==
    /\ (kick # "none" \/ queue # {} \/ pc # "idle") =>
         /\ \A vec \in AllGaugeVecs : RegisteredOnce(vec)
         /\ Len(registered) = Cardinality(AllGaugeVecs)
    /\ \A c \in 1..Len(setLog) : RegisteredOnce(setLog[c].GaugeVec)

\* the registry changes in one step only: newReconciler, before add()
RegistrationStep ==
    registered' # registered =>
        /\ registered = << >>
        /\ addPc = "newReconciler"
        /\ kick = "none"
        /\ queue = {}
        /\ pc = "idle"
        /\ pc' = "idle"

\* C13: every gauge of both catalogs is registered exactly once, in the
\* construction of the reconciler, before the start-up trigger can start the
\* first pass; no pass publishes to a gauge that is not registered and nothing
\* is registered during or after a pass.
C13_RegisteredOnceBeforeLoop ==
    /\ []RegistrationComplete
    /\ [][RegistrationStep]_vars

\* the first pass, started by the kick, set gauges of both catalogs
C13_Witness ==
    /\ pc = "done"
    /\ trigger = "kick"
    /\ \E c \in 1..Len(setLog) : setLog[c].GaugeVec \in CatalogNames(redisGaugeMetrics)
    /\ \E c \in 1..Len(setLog) : setLog[c].GaugeVec \in CatalogNames(postgresGaugeMetrics)
    /\ \A c \in 1..Len(setLog) : RegisteredOnce(setLog[c].GaugeVec)

----------------------------------------------------------------------------
(* Catalog entries of one name (PubSpec) *)

\* the catalog entries after the first one with the name of the sample
LaterMatches(gaugeMetrics, name) ==
    { k \in 1..Len(gaugeMetrics) :
        gaugeMetrics[k].Name = name /\ k # FirstMatch(gaugeMetrics, name) }

\* C14: first match wins: when several entries of the catalog have the name of a
\* sample, only the gauge of the first of them is set; the series of the gauges
\* of the later entries are as they were before publish().
C14_FirstMatchWins ==
    (pub.on /\ pub.calls >= 1) =>
        \A n \in 1..Len(pub.samples) :
            LET sample == pub.samples[n]
            IN sample.Name \in CatalogNames(pub.catalog) =>
                 \A k \in LaterMatches(pub.catalog, sample.Name) :
                     LET key == << pub.catalog[k].GaugeVec, LabelValues(sample.Labels) >>
                     IN IF key \in DOMAIN pub.before
                        THEN key \in DOMAIN gauges /\ gauges[key] = pub.before[key]
                        ELSE key \notin DOMAIN gauges

----------------------------------------------------------------------------
(* The narrowing of a catalog to the strategy of an instance (TypesSpec) *)

\* catalog entries with a query for any set of strategies; the query of a
\* strategy is named after the strategy
TypesEntryNames == { RedisFreeableMemoryAverage, RedisCPUUtilizationAverage }

TypesEntries ==
    { [ Name |-> n,
        GaugeVec |-> n,
        ProviderType |-> [ s \in d |->
                             [ PromethuesMetricName |-> n,
                               ProviderMetricName |-> s,
                               Statistic |-> StatisticAverage ] ] ] :
        n \in TypesEntryNames, d \in SUBSET Strategies }

TypesCatalogs == UNION { [ 1..n -> TypesEntries ] : n \in 0..MaxCatalogLen }

\* the loop over a catalog at lines 256-264 and 294-302, on its own
TypesInit ==
    /\ addPc = "off"
    /\ registered = << >>
    /\ kick = "none"
    /\ watching = FALSE
    /\ queue = {}
    /\ pc = "idle"
    /\ trigger = "none"
    /\ redisInstances = << >>
    /\ postgresInstances = << >>
    /\ idx = 1
    /\ pidx = 1
    /\ scrapedMetrics = << >>
    /\ gauges = EmptyGauges
    /\ result = NoResult
    /\ listLog = [ k \in {} |-> "ok" ]
    /\ scrapeLog = << >>
    /\ setLog = << >>
    /\ \E c \in TypesCatalogs, s \in Strategies :
         pub = [ on |-> FALSE, catalog |-> c, strategy |-> s, built |-> FALSE,
                 types |-> << >> ]

BuildMetricTypes ==
    /\ "strategy" \in DOMAIN pub
    /\ ~pub.built
    /\ pub' = [ pub EXCEPT !.built = TRUE,
                           !.types = MetricTypes(pub.catalog, pub.strategy) ]
    /\ UNCHANGED << addPc, registered, kick, watching, queue, pc, trigger,
                    redisInstances, postgresInstances, idx, pidx, scrapedMetrics,
                    gauges, result, listLog, scrapeLog, setLog >>

TypesNext == Next \/ BuildMetricTypes

\* the reconciler, and next to it the narrowing applied to catalogs whose
\* entries have queries for several strategies
TypesSpec == (Init \/ TypesInit) /\ [][TypesNext]_vars

\* the queries of the catalog keyed by the strategy, one per entry that has
\* one, in catalog order
ExpectedTypes(gaugeMetrics, strategy) ==
    LET having == SelectSeq(gaugeMetrics, LAMBDA e : strategy \in DOMAIN e.ProviderType)
    IN [ k \in 1..Len(having) |-> having[k].ProviderType[strategy] ]

NoDescriptor(gaugeMetrics, strategy) ==
    \A k \in 1..Len(gaugeMetrics) : strategy \notin DOMAIN gaugeMetrics[k].ProviderType

\* C15: the metric types passed to a scrape call for an instance are exactly the
\* queries of the catalog of its kind keyed by the strategy of the instance, one
\* per entry that has a query for that strategy and none of another strategy;
\* a catalog with no query for the strategy gives no metric type to scrape.
C15_TypesKeyedByStrategy ==
    /\ \A m \in 1..Len(scrapeLog) :
         LET call == scrapeLog[m]
         IN /\ call.types = ExpectedTypes(KindCatalog(call.kind), call.inst.Strategy)
            /\ NoDescriptor(KindCatalog(call.kind), call.inst.Strategy) =>
                 call.types = << >>
    /\ ("strategy" \in DOMAIN pub /\ pub.built) =>
         /\ pub.types = ExpectedTypes(pub.catalog, pub.strategy)
         /\ NoDescriptor(pub.catalog, pub.strategy) => pub.types = << >>

\* the redis loop is over an instance of a strategy without queries and an AWS
\* instance that was scraped with the three queries of the redis catalog
C15_Witness ==
    /\ pc = "publishRedis"
    /\ \E n \in 1..Len(redisInstances) : redisInstances[n].Strategy = "gcp"
    /\ \E m \in 1..Len(scrapeLog) :
         /\ scrapeLog[m].kind = "redis"
         /\ scrapeLog[m].inst.Strategy = AWSDeploymentStrategy
         /\ Len(scrapeLog[m].types) = 3
         /\ \A k \in 1..3 :
              scrapeLog[m].types[k] = redisGaugeMetrics[k].ProviderType[AWSDeploymentStrategy]

----------------------------------------------------------------------------
(* The samples of a pass (Spec) *)

\* the Set call is the publication of a sample of the sequence
CallOfSample(call, samples) ==
    \E n \in 1..Len(samples) :
        /\ samples[n].Name = call.GaugeVec
        /\ LabelValues(samples[n].Labels) = call.LabelValues
        /\ samples[n].Value = call.Value

\* C16: the accumulated samples are empty when a pass starts, and every gauge
\* write of a pass publishes a sample that a scrape of that same pass returned:
\* a sample of an earlier pass never causes a write.
C16_SamplesEphemeral ==
    /\ pc = "listRedis" => scrapedMetrics = << >>
    /\ \A c \in 1..Len(setLog) : CallOfSample(setLog[c], ReturnedSamples(scrapeLog))

\* a pass after the first one published a sample of its own, and a series set
\* by an earlier pass was not written again
C16_Witness ==
    /\ pc = "done"
    /\ trigger = "requeueAfter"
    /\ setLog # << >>
    /\ \E key \in DOMAIN gauges : CallsOn(setLog, key) = {}

----------------------------------------------------------------------------
(* The start-up kick (LiveSpec) *)

\* the goroutine is started once, by add() on its way to Watch, and its one
\* send is the only step that queues the start-up request
KickStep ==
    /\ kick' # kick =>
         \/ /\ kick = "none" /\ kick' = "blocked"
            /\ addPc = "goKick" /\ addPc' = "watch"
         \/ /\ kick = "blocked" /\ kick' = "sent"
            /\ watching
            /\ "kick" \notin queue /\ queue' = queue \cup { "kick" }
    /\ ("kick" \in queue' /\ "kick" \notin queue) =>
         (kick = "blocked" /\ kick' = "sent")
    /\ watching' # watching => (kick = "blocked" /\ addPc = "watch" /\ watching')

\* C17: once add() has installed the channel watch, the goroutine emits exactly
\* one event, which is delivered and starts the first pass with nothing from
\* outside; the send is made by the goroutine while add() goes on to Watch.
C17_StartupKick ==
    /\ (watching /\ kick # "sent") ~> (pc = "listRedis" /\ trigger = "kick")
    /\ [][KickStep]_vars

\* the first pass has started on the event of the goroutine, after add() returned
C17_Witness ==
    /\ pc = "listRedis"
    /\ trigger = "kick"
    /\ kick = "sent"
    /\ addPc = "done"
    /\ queue = {}

----------------------------------------------------------------------------
(* Which scrapes set which gauges (Spec) *)

\* the scrape calls of the pass made for one kind
KindScrapes(kind) == SelectSeq(scrapeLog, LAMBDA call : call.kind = kind)

\* the Set calls of the pass on the gauges of the catalog of one kind
KindCalls(kind) ==
    { c \in 1..Len(setLog) : setLog[c].GaugeVec \in CatalogNames(KindCatalog(kind)) }

\* C18: a gauge of the postgres catalog is set only by a sample that a postgres
\* scrape of the pass returned, and a gauge of the redis catalog only by a sample
\* that a redis scrape returned, whatever names the samples carry.
C18_KindIsolation ==
    \A kind \in Kinds :
        \A c \in KindCalls(kind) :
            CallOfSample(setLog[c], ReturnedSamples(KindScrapes(kind)))

\* C18 as amended: a gauge of the redis catalog is set only by a sample that a
\* redis scrape of the pass returned; a gauge of the postgres catalog is set only
\* by a sample of the pass that carries the name of the gauge, returned by a
\* postgres scrape or by a redis scrape.
C18_KindIsolationAmended ==
    /\ \A c \in KindCalls("redis") :
         CallOfSample(setLog[c], ReturnedSamples(KindScrapes("redis")))
    /\ \A c \in KindCalls("postgres") :
         \/ CallOfSample(setLog[c], ReturnedSamples(KindScrapes("postgres")))
         \/ CallOfSample(setLog[c], ReturnedSamples(KindScrapes("redis")))

\* a redis scrape and a postgres scrape returned a sample each, gauges of the
\* postgres catalog were set, and the sample of the redis scrape carried the
\* name of a postgres gauge
C18_Witness ==
    /\ pc = "done"
    /\ Cardinality(KindCalls("postgres")) >= 2
    /\ ReturnedSamples(KindScrapes("postgres")) # << >>
    /\ \E n \in 1..Len(ReturnedSamples(KindScrapes("redis"))) :
         ReturnedSamples(KindScrapes("redis"))[n].Name = PostgresFreeStorageAverage

====
